---- MODULE Spec2Model ----
(***************************************************************************)
(* Model of app.py, the Streamlit volatility dashboard.                    *)
(*                                                                         *)
(* Streamlit runs the whole script top to bottom on the first page load    *)
(* and again after every widget interaction; one such run is one action    *)
(* here.  The state kept between runs is the st.cache_data entry of        *)
(* load_data, the values of the sidebar widgets, and the page the last     *)
(* run left in the browser.  The CSV file on disk is the environment.      *)
(*                                                                         *)
(* Numbers: a volatility cell is a small natural number.  A text produced  *)
(* by a '{:.4f}' format is its sign and the integer count of 1/10000 units *)
(* it shows, a text produced by '{:.1f}' its sign and the count of tenths. *)
(* The metrics between the cells and the texts are float64 values.  The    *)
(* one operation on them that IEEE 754 does not fix is ** 0.5, which is    *)
(* the pow of the C library the build runs on: libm holds how that pow     *)
(* rounds the two square roots of a run.                                   *)
(***************************************************************************)
EXTENDS Integers, Sequences, FiniteSets, TLC

\* Bounds of the explored inputs.
MaxRows == 2
MaxDate == 3
MaxVal == 1

VARIABLES file, cache, widgets, view, fileRead, libm

vars == <<file, cache, widgets, view, fileRead, libm>>

-----------------------------------------------------------------------------
(* The CSV file                                                            *)

Required == {"Date", "Actual_Volatility", "GARCH_Volatility", "Predicted_Volatility"}

\* A Date cell d >= 1 is the calendar day d; the cell 0 is text that is no date.
DateCells == 0..MaxDate
Values == 0..MaxVal

IsParsable(cell) == cell >= 1

MissingFile == [kind |-> "missing", cols |-> {}, rows |-> <<>>]
UnreadableFile == [kind |-> "unreadable", cols |-> {}, rows |-> <<>>]
\* cols is the header line; the cells of a column absent from it are never read.
Csv(cols, rows) == [kind |-> "csv", cols |-> cols, rows |-> rows]

FileRow(d, a, g, p) == [Date |-> d, Actual |-> a, GARCH |-> g, Predicted |-> p]

\* Headers explored: the full schema, or the schema with one column absent.
Headers == {Required} \cup {Required \ {c} : c \in Required}

\* Row i of a sample file whose Date column is ds: the hybrid forecast is
\* exact on odd rows, the GARCH forecast overshoots by one everywhere.
SampleRows(ds) == [i \in 1..Len(ds) |-> FileRow(ds[i], i, i + 1, i + ((i + 1) % 2))]

\* A file with a header and no rows is outside the explored inputs.
DateColumns == UNION {[1..n -> DateCells] : n \in 1..MaxRows}

\* Files whose dates vary: any order, duplicates, gaps, unparsable cells.
DatedFiles == {Csv(h, SampleRows(ds)) : h \in Headers, ds \in DateColumns}

\* Files with one row per consecutive day and every combination of values.
ValueRows(n) == [1..n -> [Actual : Values, GARCH : Values, Predicted : Values]]
ValuedFiles ==
    {Csv(Required, [i \in 1..Len(vs) |-> FileRow(i, vs[i].Actual, vs[i].GARCH, vs[i].Predicted)]) :
        vs \in UNION {ValueRows(n) : n \in 1..MaxRows}}

\* One-row files whose GARCH forecast is off by 16 or by 80 and whose hybrid
\* forecast is off by 0 to 17 or 0 to 80: every odd hybrid error puts the
\* real improvement exactly halfway between two tenths of a percent (16 and
\* 1 give 93.75, 16 and 17 give -6.25, 80 and 29 give 63.75).  Both roots
\* are doubles; the quotient is exact for 16 and mostly inexact for 80.
HalfwayFiles ==
    {Csv(Required, <<FileRow(1, 17, 1, p)>>) : p \in 0..17}
    \cup {Csv(Required, <<FileRow(1, 80, 0, p)>>) : p \in 0..80}

\* The files off by 16 with a second row on which both forecasts are exact:
\* the same improvements, from two roots that are not doubles.
PaddedHalfwayFiles ==
    {Csv(Required, <<FileRow(1, 17, 1, p), FileRow(2, 0, 0, 0)>>) : p \in 0..17}

-----------------------------------------------------------------------------
(* load_data and its cache                                                 *)

EmptyDf == [cols |-> {}, rows |-> <<>>]
NoCache == [hit |-> FALSE, df |-> EmptyDf]

\* pd.read_csv gives the rows a RangeIndex 0, 1, ...
DfRow(r, i) ==
    [idx |-> i - 1, Date |-> r.Date, Actual |-> r.Actual, GARCH |-> r.GARCH,
     Predicted |-> r.Predicted]

\* The body of load_data: the exception raised ("none" when it returns) and
\* the frame returned.
load_data(f) ==
    IF f.kind = "missing" THEN [exc |-> "FileNotFoundError", df |-> EmptyDf]
    ELSE IF f.kind = "unreadable" THEN [exc |-> "PermissionError", df |-> EmptyDf]
    ELSE IF "Date" \notin f.cols THEN [exc |-> "ValueError", df |-> EmptyDf]
    ELSE IF \E i \in 1..Len(f.rows) : ~IsParsable(f.rows[i].Date)
         THEN [exc |-> "ValueError", df |-> EmptyDf]
    ELSE [exc |-> "none",
          df |-> [cols |-> f.cols, rows |-> [i \in 1..Len(f.rows) |-> DfRow(f.rows[i], i)]]]

\* @st.cache_data on a function without arguments: one entry, filled by the
\* first call that returns, never invalidated; a raised exception is not cached.
cached_load_data(f, c) ==
    IF c.hit THEN [exc |-> "none", df |-> c.df, cache |-> c, read |-> FALSE]
    ELSE LET r == load_data(f)
         IN [exc |-> r.exc, df |-> r.df,
             cache |-> IF r.exc = "none" THEN [hit |-> TRUE, df |-> r.df] ELSE c,
             read |-> TRUE]

-----------------------------------------------------------------------------
(* Sidebar controls                                                        *)

NoWidgets ==
    [live |-> FALSE, bounds |-> <<0, 0>>, range |-> <<0, 0>>,
     show_garch |-> TRUE, show_lstm |-> TRUE]

MinOf(S) == CHOOSE x \in S : \A y \in S : x <= y
MaxOf(S) == CHOOSE x \in S : \A y \in S : x >= y

Dates(df) == {df.rows[i].Date : i \in 1..Len(df.rows)}
min_date(df) == MinOf(Dates(df))
max_date(df) == MaxOf(Dates(df))

\* st.sidebar.slider: the session's value while the widget is the same one
\* (same bounds), otherwise the default value=(min_date, max_date).
Slider(w, lo, hi) == IF w.live /\ w.bounds = <<lo, hi>> THEN w.range ELSE <<lo, hi>>

\* st.sidebar.checkbox(..., value=True)
CheckboxGarch(w) == IF w.live THEN w.show_garch ELSE TRUE
CheckboxLstm(w) == IF w.live THEN w.show_lstm ELSE TRUE

-----------------------------------------------------------------------------
(* Filter                                                                  *)

\* Mask with the range's bounds excluded.
Mask_exclusive(rows, start_date, end_date) ==
    [i \in 1..Len(rows) |-> rows[i].Date > start_date /\ rows[i].Date < end_date]

\* mask = (df['Date'].dt.date >= start_date) & (df['Date'].dt.date <= end_date)
Mask(rows, start_date, end_date) ==
    [i \in 1..Len(rows) |-> rows[i].Date >= start_date /\ rows[i].Date <= end_date]

\* rows.loc[mask]: the rows whose mask entry is true, in frame order.
RECURSIVE Loc(_, _)
Loc(rows, mask) ==
    IF rows = <<>> THEN <<>>
    ELSE LET rest == Loc(Tail(rows), Tail(mask))
         IN IF Head(mask) THEN <<Head(rows)>> \o rest ELSE rest

df_filtered(df, start_date, end_date) == Loc(df.rows, Mask(df.rows, start_date, end_date))

-----------------------------------------------------------------------------
(* Binary floating point                                                   *)
(*                                                                         *)
(* The metrics are float64 values.  A natural number of any size is a      *)
(* sequence of limbs, least significant first, without leading zero limbs; *)
(* a non-negative double is m * 2^e with 2^52 <= m < 2^53, or zero.        *)

Base == 2^15

BZero == <<>>
BOne == <<1>>

RECURSIVE BNorm(_)
BNorm(a) ==
    IF a = <<>> THEN <<>>
    ELSE IF a[Len(a)] = 0 THEN BNorm(SubSeq(a, 1, Len(a) - 1)) ELSE a

RECURSIVE BFromInt(_)
BFromInt(n) == IF n = 0 THEN <<>> ELSE <<n % Base>> \o BFromInt(n \div Base)

RECURSIVE BToInt(_)
BToInt(a) == IF a = <<>> THEN 0 ELSE Head(a) + Base * BToInt(Tail(a))

\* -1, 0 or 1 as a is below, equal to or above b.
RECURSIVE BCmp(_, _)
BCmp(a, b) ==
    IF Len(a) # Len(b) THEN (IF Len(a) < Len(b) THEN -1 ELSE 1)
    ELSE IF a = <<>> THEN 0
    ELSE IF a[Len(a)] # b[Len(b)] THEN (IF a[Len(a)] < b[Len(b)] THEN -1 ELSE 1)
    ELSE BCmp(BNorm(SubSeq(a, 1, Len(a) - 1)), BNorm(SubSeq(b, 1, Len(b) - 1)))

\* The lowest limb of a, and the limbs above it.
Low(a) == IF a = <<>> THEN 0 ELSE Head(a)
High(a) == IF a = <<>> THEN <<>> ELSE Tail(a)

RECURSIVE BAddC(_, _, _)
BAddC(a, b, c) ==
    IF a = <<>> /\ b = <<>> THEN (IF c = 0 THEN <<>> ELSE <<c>>)
    ELSE <<(Low(a) + Low(b) + c) % Base>>
         \o BAddC(High(a), High(b), (Low(a) + Low(b) + c) \div Base)

BAdd(a, b) == BAddC(a, b, 0)

\* a - b for a >= b.
RECURSIVE BSubC(_, _, _)
BSubC(a, b, c) ==
    IF a = <<>> THEN <<>>
    ELSE <<(Head(a) - Low(b) - c) % Base>>
         \o BSubC(Tail(a), High(b), IF Head(a) - Low(b) - c < 0 THEN 1 ELSE 0)

BSub(a, b) == BNorm(BSubC(a, b, 0))

\* a * k for 0 <= k < Base.
RECURSIVE BMulSmallC(_, _, _)
BMulSmallC(a, k, c) ==
    IF a = <<>> THEN (IF c = 0 THEN <<>> ELSE <<c>>)
    ELSE <<(Head(a) * k + c) % Base>>
         \o BMulSmallC(Tail(a), k, (Head(a) * k + c) \div Base)

BMulSmall(a, k) == BNorm(BMulSmallC(a, k, 0))

RECURSIVE BMul(_, _)
BMul(a, b) ==
    IF a = <<>> \/ b = <<>> THEN <<>>
    ELSE BAdd(BMulSmall(a, Head(b)), BNorm(<<0>> \o BMul(a, Tail(b))))

BPow2(k) == [i \in 1..(k \div 15) |-> 0] \o <<2^(k % 15)>>

RECURSIVE BitsOf(_)
BitsOf(n) == IF n = 0 THEN 0 ELSE 1 + BitsOf(n \div 2)

\* The number of binary digits of a > 0.
BBitLen(a) == 15 * (Len(a) - 1) + BitsOf(a[Len(a)])

BIsOdd(a) == a # <<>> /\ Head(a) % 2 = 1

\* One quotient bit of a division: bit i is set when s, the divisor times
\* 2^i, still fits in the remainder.
BDivTry(st, s, i) ==
    IF BCmp(st.r, s) >= 0
    THEN [q |-> BAdd(st.q, BPow2(i)), r |-> BSub(st.r, s)]
    ELSE st

BDivStep(st, d, i) == BDivTry(st, BMul(d, BPow2(i)), i)

\* What the lower quotient bits add to the upper ones; they are all 0 once
\* nothing remains.
RECURSIVE BDivBits(_, _, _, _)
BDivLower(upper, d, hi, lo) ==
    IF upper.r = <<>> THEN upper ELSE BDivBits(upper, d, hi, lo)

\* The quotient bits hi down to lo, the upper half of the range first.
BDivBits(st, d, hi, lo) ==
    IF hi = lo THEN BDivStep(st, d, hi)
    ELSE BDivLower(BDivBits(st, d, hi, (hi + lo) \div 2 + 1), d, (hi + lo) \div 2, lo)

\* Quotient and remainder of the division of n by d > 0.
BDivMod(n, d) ==
    IF BCmp(n, d) < 0 THEN [q |-> <<>>, r |-> n]
    ELSE BDivBits([q |-> <<>>, r |-> n], d, BBitLen(n) - BBitLen(d), 0)

\* One bit of the square root of n: c, the root so far with the bit set, is
\* kept when its square still fits.
BSqrtTry(r, c, n) == IF BCmp(BMul(c, c), n) <= 0 THEN c ELSE r

BSqrtStep(r, n, i) == BSqrtTry(r, BAdd(r, BPow2(i)), n)

\* What the lower bits add to the upper ones; they are all 0 once the square
\* is n.
RECURSIVE BSqrtBits(_, _, _, _)
BSqrtLower(upper, n, hi, lo) ==
    IF BMul(upper, upper) = n THEN upper ELSE BSqrtBits(upper, n, hi, lo)

\* The root's bits hi down to lo, the upper half of the range first.
BSqrtBits(r, n, hi, lo) ==
    IF hi = lo THEN BSqrtStep(r, n, hi)
    ELSE BSqrtLower(BSqrtBits(r, n, hi, (hi + lo) \div 2 + 1), n, (hi + lo) \div 2, lo)

\* The floor of the square root of n.
BSqrt(n) == IF n = <<>> THEN <<>> ELSE BSqrtBits(<<>>, n, BBitLen(n) \div 2, 0)

DZero == [m |-> <<>>, e |-> 0]

\* The double m * 2^e, renormalised when a carry brought m to 2^53.
DNorm(m, e) ==
    IF m = BPow2(53) THEN [m |-> BPow2(52), e |-> e + 1] ELSE [m |-> m, e |-> e]

\* q rounded up or not.
DCarry(q, up, e) == DNorm(IF up THEN BAdd(q, BOne) ELSE q, e)

\* A division with its divisor.
WithDivisor(dm, d) == [q |-> dm.q, r |-> dm.r, d |-> d]

Quot(n, d) == WithDivisor(BDivMod(n, d), d)

\* The division n * 2^t by d, for t of either sign.
ScaledQuot(n, d, t) ==
    IF t >= 0 THEN Quot(BMul(n, BPow2(t)), d) ELSE Quot(n, BMul(d, BPow2(0 - t)))

\* Whether the quotient rounds up to the nearest integer: above the half, or
\* on it and odd.
HalfUp(c, q) == c > 0 \/ (c = 0 /\ BIsOdd(q))

RoundsUp(dd) == HalfUp(BCmp(BMulSmall(dd.r, 2), dd.d), dd.q)

FlRound(dd, e) == DCarry(dd.q, RoundsUp(dd), e)

\* The scale t0 leaves the quotient 53 or 52 binary digits; with 52 the
\* division is redone one digit further.
FlPick(d0, n, d, e, t0) ==
    IF BCmp(d0.q, BPow2(52)) >= 0 THEN FlRound(d0, e - t0)
    ELSE FlRound(ScaledQuot(n, d, t0 + 1), e - t0 - 1)

FlAt(n, d, e, t0) == FlPick(ScaledQuot(n, d, t0), n, d, e, t0)

\* The double nearest to (n / d) * 2^e, an exact half going to the even
\* mantissa, for n >= 0 and d > 0.
Fl(n, d, e) ==
    IF n = <<>> THEN DZero ELSE FlAt(n, d, e, 52 - (BBitLen(n) - BBitLen(d)))

\* How pow can round a square root that is not a double: to the nearer of
\* the two doubles around it, as a correctly rounded pow does, or to the one
\* below or the one above; pow is accurate to within one unit in the last
\* place, not more.
Sides == {"nearest", "below", "above"}

\* rest is what the floor r of the root leaves of n: the root is above
\* r + 1/2 when rest > r.
PowHalfPick(r, rest, side, e) ==
    DCarry(r,
           /\ rest # <<>>
           /\ \/ side = "above"
              \/ side = "nearest" /\ BCmp(rest, r) > 0,
           e)

PowHalfRound(n, r, side, e) == PowHalfPick(r, BSub(n, BMul(r, r)), side, e)

\* The root of m * 2^e with the exponent made even by k.
PowHalfAt(x, side, k) ==
    PowHalfRound(BMul(x.m, BPow2(k)), BSqrt(BMul(x.m, BPow2(k))), side, (x.e - k) \div 2)

\* x ** 0.5 for a double x >= 0: the root itself when it is a double,
\* otherwise its neighbour on the given side.
PowHalf(x, side) ==
    IF x.m = <<>> THEN DZero
    ELSE PowHalfAt(x, side, IF x.e % 2 = 0 THEN 52 ELSE 53)

\* -1, 0 or 1 as x is below, equal to or above y, for x, y >= 0.
DCmp(x, y) ==
    IF x.m = <<>> \/ y.m = <<>>
    THEN (IF x.m = y.m THEN 0 ELSE IF x.m = <<>> THEN -1 ELSE 1)
    ELSE IF x.e # y.e THEN (IF x.e < y.e THEN -1 ELSE 1)
    ELSE BCmp(x.m, y.m)

\* x - y for x >= y >= 0.
DSubOrdered(x, y) ==
    IF y.m = <<>> THEN x
    ELSE Fl(BSub(BMul(x.m, BPow2(x.e - y.e)), y.m), BOne, y.e)

DSubSigned(neg, x, y) ==
    [neg |-> neg, abs |-> DSubOrdered(IF neg THEN y ELSE x, IF neg THEN x ELSE y)]

\* x - y for x, y >= 0, with its sign.
DSub(x, y) == DSubSigned(DCmp(x, y) < 0, x, y)

\* x / y for y > 0.
DDiv(x, y) == Fl(x.m, y.m, x.e - y.e)

\* x * 100
DTimes100(x) == Fl(BMulSmall(x.m, 100), BOne, x.e)

RECURSIVE Pow10(_)
Pow10(k) == IF k = 0 THEN 1 ELSE 10 * Pow10(k - 1)

RoundQuot(dd) == IF RoundsUp(dd) THEN BAdd(dd.q, BOne) ELSE dd.q

\* f"{x:.kf}" of x >= 0 as the count of units of 10^-k it shows: the exact
\* value of the double rounded to the nearest unit, an exact half to even.
DFormat(x, k) ==
    IF x.m = <<>> THEN 0
    ELSE IF x.e >= 0 THEN BToInt(BMul(BMulSmall(x.m, Pow10(k)), BPow2(x.e)))
    ELSE BToInt(RoundQuot(Quot(BMulSmall(x.m, Pow10(k)), BPow2(0 - x.e))))

\* The text of a formatted number: its sign and the count of units shown.
Text(minus, units) == [minus |-> minus, units |-> units]

\* (sqErr / n) ** 0.5 as the code computes it: the mean as a double, then
\* its power.
Rmse(sqErr, n, side) == PowHalf(Fl(BFromInt(sqErr), BFromInt(n), 0), side)

ImprovementOf(diff, rmse_garch) ==
    [neg |-> diff.neg, abs |-> DTimes100(DDiv(diff.abs, rmse_garch))]

\* (rmse_garch - rmse_lstm) / rmse_garch * 100 for rmse_garch > 0, with its sign.
Improvement(rmse_garch, rmse_lstm) ==
    ImprovementOf(DSub(rmse_garch, rmse_lstm), rmse_garch)

-----------------------------------------------------------------------------
(* Key metrics                                                             *)

\* Floor of the square root of n >= 0, by bisection on lo^2 <= n < hi^2.
RECURSIVE IsqrtIter(_, _, _)
IsqrtIter(n, lo, hi) ==
    IF hi - lo <= 1 THEN lo
    ELSE LET mid == (lo + hi) \div 2
         IN IF mid <= n \div mid THEN IsqrtIter(n, mid, hi) ELSE IsqrtIter(n, lo, mid)

Isqrt(n) == IsqrtIter(n, 0, n + 1)

\* sqrt(num / den) to k decimal digits, for num >= 0 and den > 0, one digit
\* at a time: r is the floor of 10^k * sqrt(num / den) and
\* rem = num * 100^k - den * r^2.
RECURSIVE SqrtDigits(_, _, _)
SqrtDigits(num, den, k) ==
    IF k = 0
    THEN LET r == Isqrt(num \div den) IN [r |-> r, rem |-> num - den * r * r]
    ELSE LET p == SqrtDigits(num, den, k - 1)
             Fits(d) == den * (20 * p.r * d + d * d) <= 100 * p.rem
             d == CHOOSE x \in 0..9 : Fits(x) /\ (x = 9 \/ ~Fits(x + 1))
         IN [r |-> 10 * p.r + d, rem |-> 100 * p.rem - den * (20 * p.r * d + d * d)]

\* Where 10^k * sqrt(num / den) lies between p.r and p.r + 1: positive above
\* the half, 0 on it, negative below.
AboveHalf(p, den) == 4 * p.rem - den * (4 * p.r + 1)

\* A format's rounding of a value that lies between the integers n and n + 1
\* (in units of the last digit shown) and off their half: to the nearest.
\* side is positive when the value is above n + 1/2, negative below.
FormatRound(n, side) == IF side > 0 THEN n + 1 ELSE n

\* Whether the digits of sqrt(num / den) alone settle what a format of k
\* decimals shows.  They do when the real value is off the half between two
\* neighbours and num * den <= 10^6: the real value is then at least
\* 1 / (8 * 10^k * sqrt(num * den)) units from the half, several times the
\* error the float64 operations can accumulate on such operands whichever
\* way pow rounds, so the double lies on the same side of the half.  On an
\* exact half, or beyond that range, the double itself is computed.
Settled(num, den, k) ==
    /\ num <= 1000000 \div den
    /\ AboveHalf(SqrtDigits(num, den, k), den) # 0

RECURSIVE SumSeq(_)
SumSeq(s) == IF s = <<>> THEN 0 ELSE Head(s) + SumSeq(Tail(s))

\* The series actual - pred over the subset, element-wise.
ResidualGarch(sub) == [i \in 1..Len(sub) |-> sub[i].Actual - sub[i].GARCH]
ResidualLstm(sub) == [i \in 1..Len(sub) |-> sub[i].Actual - sub[i].Predicted]

\* ((actual - pred) ** 2) summed; the mean divides it by Len.
SqErr(res) == SumSeq([i \in 1..Len(res) |-> res[i] * res[i]])

\* The side of the power that gives rmse_lstm: pow is a function, so on
\* equal means the two powers are the same double.
LstmSide(sg, sl, pw) == IF sl = sg THEN pw.garch ELSE pw.lstm

\* The rounding of the digits p of sqrt(num / den).
DigitsRound(p, den) == FormatRound(p.r, AboveHalf(p, den))

\* f"{rmse:.4f}" of rmse = (sqErr / n) ** 0.5, in units of 1/10000.
RmseShown(sqErr, n, side) ==
    IF Settled(sqErr, n, 4) THEN DigitsRound(SqrtDigits(sqErr, n, 4), n)
    ELSE DFormat(Rmse(sqErr, n, side), 4)

RmseText(res, side) == Text(FALSE, RmseShown(SqErr(res), Len(res), side))

\* The text of t tenths with the sign of a value that is negative or not.
SignedText(neg, t) == Text(neg, IF t < 0 THEN 0 - t ELSE t)

\* f"{x:.1f}" of a double with its sign.
DFormat1(x) == Text(x.neg, DFormat(x.abs, 1))

\* f"{improvement:.1f}" in tenths of a percent, where improvement is
\* (rmse_garch - rmse_lstm) / rmse_garch * 100 if rmse_garch != 0 else 0, for
\* squared errors sg and sl summed over the same n rows.  rmse_garch is 0
\* exactly when sg is 0.  The real value is 100 - y / 10 with
\* y = 1000 * sqrt(sl / sg): with p.r <= y < p.r + 1 it lies between the
\* tenths 999 - p.r and 1000 - p.r, above their half exactly when y is below
\* its own, and is negative exactly when sl > sg.  pw.garch and pw.lstm
\* are the sides of the two powers.
ImprovementDigits(p, sg, sl) ==
    SignedText(sl > sg, FormatRound(999 - p.r, 0 - AboveHalf(p, sg)))

ImprovementShown(sg, sl, n, pw) ==
    IF sg = 0 THEN Text(FALSE, 0)
    ELSE IF Settled(sl, sg, 3) THEN ImprovementDigits(SqrtDigits(sl, sg, 3), sg, sl)
    ELSE DFormat1(Improvement(Rmse(sg, n, pw.garch), Rmse(sl, n, LstmSide(sg, sl, pw))))

\* ImprovementText measured against the hybrid model instead of GARCH.
ImprovementText_reversed(resGarch, resLstm, pw) ==
    ImprovementShown(SqErr(resLstm), SqErr(resGarch), Len(resGarch),
                     [garch |-> pw.lstm, lstm |-> pw.garch])

ImprovementText(resGarch, resLstm, pw) ==
    ImprovementShown(SqErr(resGarch), SqErr(resLstm), Len(resGarch), pw)

\* A slot of the metrics row: what it holds, the number it shows and the
\* number in its delta line (Blank where the code passes none).
Blank == Text(FALSE, 0)
NoSlot == [kind |-> "none", value |-> Blank, delta |-> Blank]
InfoSlot == [kind |-> "info", value |-> Blank, delta |-> Blank]
MetricSlot(v, d) == [kind |-> "metric", value |-> v, delta |-> d]

\* KeyMetrics without the emptiness check: pandas' mean of no rows is NaN,
\* shown as a number slot.
KeyMetrics_unguarded(sub) ==
    <<MetricSlot(Blank, Blank), MetricSlot(Blank, Blank), MetricSlot(Blank, Blank)>>

\* col1.metric, col2.metric and col3.metric.
MetricsRow(rmse_garch, rmse_lstm, improvement) ==
    <<MetricSlot(rmse_garch, Blank), MetricSlot(rmse_lstm, improvement),
      MetricSlot(improvement, Blank)>>

\* The three columns col1, col2, col3 of the metrics row.
KeyMetrics(sub) ==
    IF sub # <<>>
    THEN MetricsRow(RmseText(ResidualGarch(sub), libm.garch),
                    RmseText(ResidualLstm(sub),
                             LstmSide(SqErr(ResidualGarch(sub)),
                                      SqErr(ResidualLstm(sub)), libm)),
                    ImprovementText(ResidualGarch(sub), ResidualLstm(sub), libm))
    ELSE <<InfoSlot, InfoSlot, InfoSlot>>

-----------------------------------------------------------------------------
(* Charts and table                                                        *)

Trace(name, sub, y) ==
    [name |-> name, x |-> [i \in 1..Len(sub) |-> sub[i].Date], y |-> y]

ActualCol(sub) == [i \in 1..Len(sub) |-> sub[i].Actual]
GarchCol(sub) == [i \in 1..Len(sub) |-> sub[i].GARCH]
PredictedCol(sub) == [i \in 1..Len(sub) |-> sub[i].Predicted]

\* MainChart with each forecast trace gated by the other checkbox.
MainChart_crossed(sub, show_garch, show_lstm) ==
    <<Trace("Actual Volatility", sub, ActualCol(sub))>>
    \o (IF show_lstm THEN <<Trace("GARCH Forecast", sub, GarchCol(sub))>> ELSE <<>>)
    \o (IF show_garch THEN <<Trace("LSTM+GARCH Forecast", sub, PredictedCol(sub))>> ELSE <<>>)

\* fig: the traces added to the overlay figure, in the order they are added.
MainChart(sub, show_garch, show_lstm) ==
    <<Trace("Actual Volatility", sub, ActualCol(sub))>>
    \o (IF show_garch THEN <<Trace("GARCH Forecast", sub, GarchCol(sub))>> ELSE <<>>)
    \o (IF show_lstm THEN <<Trace("LSTM+GARCH Forecast", sub, PredictedCol(sub))>> ELSE <<>>)

nbins == 30

Histogram(title, x) == [title |-> title, x |-> x, nbins |-> nbins]

\* fig_garch_error and fig_lstm_error, or no figure when the subset is empty.
ErrorDistribution(sub) ==
    IF sub # <<>>
    THEN <<Histogram("GARCH Forecast Errors", ResidualGarch(sub)),
           Histogram("LSTM+GARCH Forecast Errors", ResidualLstm(sub))>>
    ELSE <<>>

\* '{:.4f}' of a volatility cell, in units of 1/10000.
Format4(v) == v * 10000

DataTable(sub) ==
    [i \in 1..Len(sub) |->
        [idx |-> sub[i].idx, Date |-> sub[i].Date,
         Actual_Volatility |-> Format4(sub[i].Actual),
         GARCH_Volatility |-> Format4(sub[i].GARCH),
         Predicted_Volatility |-> Format4(sub[i].Predicted)]]

-----------------------------------------------------------------------------
(* One run of the script                                                   *)

Page(state, exception, rendered, filtered, sub, metrics, fig, hists, table) ==
    [state |-> state, exception |-> exception, rendered |-> rendered,
     filtered |-> filtered, df_filtered |-> sub, metrics |-> metrics,
     fig |-> fig, hists |-> hists, table |-> table]

NoMetrics == <<NoSlot, NoSlot, NoSlot>>

\* Before the first run nothing is on the page.
BlankPage == Page("Loading", "none", {}, FALSE, <<>>, NoMetrics, <<>>, <<>>, <<>>)

\* except FileNotFoundError: st.error(...); st.stop()
LoadErrorPage == Page("LoadError", "none", {"error"}, FALSE, <<>>, NoMetrics, <<>>, <<>>, <<>>)

\* Any other exception is not caught: Streamlit shows it below what the run
\* had rendered so far and the run ends there.
CrashPage(exc, rendered, filtered, sub) ==
    Page("Crashed", exc, rendered \cup {"exception"}, filtered, sub, NoMetrics, <<>>, <<>>, <<>>)

\* Dashboard with each histogram drawn only while its model's checkbox is on.
Dashboard_hist_toggled(sub, show_garch, show_lstm) ==
    Page(IF sub = <<>> THEN "Empty" ELSE "Ready", "none",
         {"sidebar", "metrics", "overlay", "table"}
            \cup (IF sub # <<>> THEN {"histograms"} ELSE {"hist_info"}),
         TRUE, sub, KeyMetrics(sub), MainChart(sub, show_garch, show_lstm),
         IF sub = <<>> THEN <<>>
         ELSE (IF show_garch
               THEN <<Histogram("GARCH Forecast Errors", ResidualGarch(sub))>> ELSE <<>>)
              \o (IF show_lstm
                  THEN <<Histogram("LSTM+GARCH Forecast Errors", ResidualLstm(sub))>> ELSE <<>>),
         DataTable(sub))

\* The sections from KEY METRICS to DATA TABLE on the filtered frame.
Dashboard(sub, show_garch, show_lstm) ==
    Page(IF sub = <<>> THEN "Empty" ELSE "Ready", "none",
         {"sidebar", "metrics", "overlay", "table"}
            \cup (IF sub # <<>> THEN {"histograms"} ELSE {"hist_info"}),
         TRUE, sub, KeyMetrics(sub), MainChart(sub, show_garch, show_lstm),
         ErrorDistribution(sub), DataTable(sub))

VolatilityColumns == {"Actual_Volatility", "GARCH_Volatility", "Predicted_Volatility"}

\* The script from LOAD DATA on, run on file f with cache c and session
\* widget values w: the cache, the widget values and the page it leaves.
RunScript(f, c, w) ==
    LET ld == cached_load_data(f, c)
    IN IF ld.exc = "FileNotFoundError"
       THEN [cache |-> ld.cache, widgets |-> NoWidgets, view |-> LoadErrorPage, read |-> ld.read]
       ELSE IF ld.exc # "none"
       THEN [cache |-> ld.cache, widgets |-> NoWidgets,
             view |-> CrashPage(ld.exc, {}, FALSE, <<>>), read |-> ld.read]
       ELSE LET df == ld.df
                lo == min_date(df)
                hi == max_date(df)
                range == Slider(w, lo, hi)
                show_garch == CheckboxGarch(w)
                show_lstm == CheckboxLstm(w)
                sub == df_filtered(df, range[1], range[2])
                ws == [live |-> TRUE, bounds |-> <<lo, hi>>, range |-> range,
                       show_garch |-> show_garch, show_lstm |-> show_lstm]
            IN [cache |-> ld.cache, widgets |-> ws, read |-> ld.read,
                view |-> IF ~(VolatilityColumns \subseteq df.cols)
                         THEN CrashPage("KeyError", {"sidebar"}, TRUE, sub)
                         ELSE Dashboard(sub, show_garch, show_lstm)]

\* Rerun that keeps the filtered frame as the cached frame.
Rerun_narrowing(w) ==
    LET r == RunScript(file, cache, w)
    IN /\ cache' = IF r.view.filtered
                   THEN [r.cache EXCEPT !.df.rows = r.view.df_filtered] ELSE r.cache
       /\ widgets' = r.widgets
       /\ view' = r.view
       /\ fileRead' = r.read
       /\ UNCHANGED <<file, libm>>

\* One run of the script with session widget values w.
Rerun(w) ==
    LET r == RunScript(file, cache, w)
    IN /\ cache' = r.cache
       /\ widgets' = r.widgets
       /\ view' = r.view
       /\ fileRead' = r.read
       /\ UNCHANGED <<file, libm>>

-----------------------------------------------------------------------------
(* Actions                                                                 *)

\* The page is opened or reloaded in the browser: a new session.
OpenPage == Rerun(NoWidgets)

\* The user drags the date slider to another range inside its bounds.
ChangeDateRange ==
    /\ widgets.live
    /\ \E s \in widgets.bounds[1]..widgets.bounds[2] :
         \E e \in s..widgets.bounds[2] :
            /\ <<s, e>> # widgets.range
            /\ Rerun([widgets EXCEPT !.range = <<s, e>>])

ToggleGarch ==
    /\ widgets.live
    /\ Rerun([widgets EXCEPT !.show_garch = ~@])

ToggleLstm ==
    /\ widgets.live
    /\ Rerun([widgets EXCEPT !.show_lstm = ~@])

\* The environment removes the CSV file.
DeleteFile ==
    /\ file.kind = "csv"
    /\ file' = MissingFile
    /\ UNCHANGED <<cache, widgets, view, fileRead, libm>>

\* The environment rewrites the CSV file without its first record.
RollFile ==
    /\ file.kind = "csv"
    /\ Len(file.rows) > 1
    /\ file' = [file EXCEPT !.rows = Tail(@)]
    /\ UNCHANGED <<cache, widgets, view, fileRead, libm>>

\* A pow that rounds correctly.
Nearest == [garch |-> "nearest", lstm |-> "nearest"]

\* No metric of these files lies on a half between two shown values, so
\* their pages do not depend on libm and one value of it is explored.
Init ==
    /\ file \in {MissingFile, UnreadableFile} \cup DatedFiles
    /\ cache = NoCache
    /\ widgets = NoWidgets
    /\ view = BlankPage
    /\ fileRead = FALSE
    /\ libm = Nearest

Next ==
    \/ OpenPage
    \/ ChangeDateRange
    \/ ToggleGarch
    \/ ToggleLstm
    \/ DeleteFile
    \/ RollFile

Spec == Init /\ [][Next]_vars

\* The metrics as a function of the loaded values: every table of values,
\* each opened once, and every rounding of the two powers where they are
\* not exact and the improvement lies on a half.
InitMetrics ==
    /\ \/ file \in ValuedFiles \cup HalfwayFiles /\ libm = Nearest
       \/ file \in PaddedHalfwayFiles /\ libm \in [garch : Sides, lstm : Sides]
    /\ cache = NoCache
    /\ widgets = NoWidgets
    /\ view = BlankPage
    /\ fileRead = FALSE

NextMetrics == OpenPage

SpecMetrics == InitMetrics /\ [][NextMetrics]_vars

-----------------------------------------------------------------------------
(* Properties                                                              *)

OnDashboard == view.state \in {"Ready", "Empty"}

InRange(r, range) == range[1] <= r.Date /\ r.Date <= range[2]

\* C1: whenever the filter has run, the slider range lies inside
\* [min_date, max_date] and the filtered frame holds exactly the rows of the
\* loaded table whose date is in the inclusive range, in table order.
C1_FilterExactInclusiveOrdered ==
    view.filtered =>
        LET rows == cache.df.rows
            sub == view.df_filtered
            range == widgets.range
        IN /\ cache.hit
           /\ widgets.bounds[1] <= range[1] /\ range[1] <= range[2]
           /\ range[2] <= widgets.bounds[2]
           /\ \A i \in 1..Len(sub) :
                /\ \E j \in 1..Len(rows) : rows[j] = sub[i]
                /\ InRange(sub[i], range)
           /\ \A j \in 1..Len(rows) :
                InRange(rows[j], range) => \E i \in 1..Len(sub) : sub[i] = rows[j]
           /\ \A i, k \in 1..Len(sub) : i < k => sub[i].idx < sub[k].idx

\* A narrowed range that keeps a row on its bound and leaves another out.
C1_Witness ==
    /\ view.filtered
    /\ widgets.range # widgets.bounds
    /\ Len(view.df_filtered) >= 1
    /\ Len(view.df_filtered) < Len(cache.df.rows)
    /\ \E i \in 1..Len(view.df_filtered) : view.df_filtered[i].Date = widgets.range[1]

\* The load of file f fails: the source is missing or unreadable, or a
\* required column is absent.
LoadFails(f) == f.kind # "csv" \/ ~(Required \subseteq f.cols)

\* C2: every run that executes load_data on a source whose load fails ends on
\* the LoadError page: only the error message, and no filter, metric, chart
\* or table.
C2_LoadFailureIsTerminal ==
    [][(file' = file /\ fileRead' /\ LoadFails(file)) =>
          /\ view'.state = "LoadError"
          /\ view'.rendered = {"error"}
          /\ ~view'.filtered]_vars

AllInfo(metrics) == \A k \in 1..3 : metrics[k] = InfoSlot

\* C3: on a dashboard page whose filtered frame is empty nothing was raised
\* and each of the three metric slots shows the "no data" message, not a number.
C3_EmptySubsetMetricsNoData ==
    (OnDashboard /\ view.df_filtered = <<>>) =>
        /\ view.exception = "none"
        /\ Len(view.metrics) = 3
        /\ AllInfo(view.metrics)

\* A range that falls in a gap between the table's dates.
C3_Witness ==
    /\ view.state = "Empty"
    /\ cache.df.rows # <<>>
    /\ view.metrics[1].kind = "info"

SqErrGarch(sub) == SumSeq([i \in 1..Len(sub) |-> (sub[i].Actual - sub[i].GARCH) * (sub[i].Actual - sub[i].GARCH)])
SqErrLstm(sub) == SumSeq([i \in 1..Len(sub) |-> (sub[i].Actual - sub[i].Predicted) * (sub[i].Actual - sub[i].Predicted)])

\* The signed count of units a text shows.
Units(t) == IF t.minus THEN 0 - t.units ELSE t.units

\* t tenths of a percent is within half a tenth of (1 - sqrt(sl / sg)) * 100:
\* r = 1000 - t is within 1/2 of 1000 * sqrt(sl / sg), that is
\* (2r - 1)^2 * sg <= 4000000 * sl <= (2r + 1)^2 * sg, compared without a
\* bound on the size of the products.
IsImprovement(t, sg, sl) ==
    LET r == 1000 - t
        Square(x) == BMul(BFromInt(x), BFromInt(x))
        lo == BMul(Square(2 * r - 1), BFromInt(sg))
        hi == BMul(Square(2 * r + 1), BFromInt(sg))
        m == BMul(BFromInt(4000000), BFromInt(sl))
    IN /\ r >= 0
       /\ BCmp(m, hi) <= 0
       /\ (r = 0 \/ BCmp(lo, m) <= 0)

\* C4: for a non-empty filtered frame the improvement shown is 0 when the
\* GARCH errors are all zero (rmse_garch = 0), and otherwise is
\* (rmse_garch - rmse_lstm) / rmse_garch * 100 to one decimal, with a minus
\* sign exactly when the hybrid's error is the larger; the delta of the
\* second slot shows the same text.
C4_ImprovementZeroPolicy ==
    view.state = "Ready" =>
        LET sub == view.df_filtered
            t == view.metrics[3].value
        IN /\ view.exception = "none"
           /\ view.metrics[3].kind = "metric"
           /\ view.metrics[2].delta = t
           /\ (SqErrGarch(sub) = 0 => t = Text(FALSE, 0) /\ view.metrics[1].value = Text(FALSE, 0))
           /\ (SqErrGarch(sub) # 0 =>
                 /\ IsImprovement(Units(t), SqErrGarch(sub), SqErrLstm(sub))
                 /\ t.minus = (SqErrLstm(sub) > SqErrGarch(sub)))

\* The improvement exactly halfway between two tenths, every double exact:
\* residuals 16 and 1 give 93.75, shown as 93.8.
HalfwayImprovementShown ==
    /\ view.state = "Ready"
    /\ SqErrGarch(view.df_filtered) = 256
    /\ SqErrLstm(view.df_filtered) = 1
    /\ view.metrics[1].value = Text(FALSE, 160000)
    /\ view.metrics[2].value = Text(FALSE, 10000)
    /\ view.metrics[3].value = Text(FALSE, 938)

\* The real improvement halfway between two tenths and the double below it:
\* residuals 80 and 29 give 63.74999999999999, shown as 63.7.
HalfwayImprovementBelow ==
    /\ view.state = "Ready"
    /\ SqErrGarch(view.df_filtered) = 6400
    /\ SqErrLstm(view.df_filtered) = 841
    /\ view.metrics[3].value = Text(FALSE, 637)

\* GARCH exact on every row, the hybrid off by one on every row:
\* rmse_garch = 0.0000, rmse_lstm = 1.0000, improvement 0.0.
C4_Witness ==
    /\ view.state = "Ready"
    /\ Len(view.df_filtered) > 1
    /\ SqErrGarch(view.df_filtered) = 0
    /\ view.metrics[1].value = Text(FALSE, 0)
    /\ view.metrics[2].value = Text(FALSE, 10000)
    /\ view.metrics[3].value = Text(FALSE, 0)

TraceNames(fig) == {fig[i].name : i \in 1..Len(fig)}

IsSeries(tr, sub) ==
    /\ Len(tr.x) = Len(sub)
    /\ Len(tr.y) = Len(sub)
    /\ \A i \in 1..Len(sub) :
         /\ tr.x[i] = sub[i].Date
         /\ tr.y[i] = (CASE tr.name = "Actual Volatility" -> sub[i].Actual
                         [] tr.name = "GARCH Forecast" -> sub[i].GARCH
                         [] tr.name = "LSTM+GARCH Forecast" -> sub[i].Predicted)

\* C5: on every dashboard page the overlay has the actual series, the GARCH
\* series iff show_garch, the hybrid series iff show_lstm, no other and no
\* repeated series, and each series lists the filtered rows' (date, value)
\* pairs in order.
C5_OverlaySeriesFollowToggles ==
    OnDashboard =>
        LET fig == view.fig
        IN /\ "Actual Volatility" \in TraceNames(fig)
           /\ "GARCH Forecast" \in TraceNames(fig) <=> widgets.show_garch
           /\ "LSTM+GARCH Forecast" \in TraceNames(fig) <=> widgets.show_lstm
           /\ TraceNames(fig) \subseteq
                {"Actual Volatility", "GARCH Forecast", "LSTM+GARCH Forecast"}
           /\ Len(fig) = Cardinality(TraceNames(fig))
           /\ \A k \in 1..Len(fig) : IsSeries(fig[k], view.df_filtered)

\* Both checkboxes off on a non-empty frame: the actual series alone.
C5_Witness ==
    /\ view.state = "Ready"
    /\ ~widgets.show_garch
    /\ ~widgets.show_lstm
    /\ Len(view.fig) = 1
    /\ view.fig[1].name = "Actual Volatility"
    /\ Len(view.fig[1].y) > 1

\* C6: on the Empty page no overlay chart, no error histogram and no data
\* table is rendered: every chart and table target is a placeholder.
C6_EmptyRendersNoChartNoTable ==
    view.state = "Empty" =>
        view.rendered \cap {"overlay", "histograms", "table"} = {}

\* What the code renders on the Empty page: only the sections guarded by
\* df_filtered.empty degrade (the three metric slots and the error
\* distribution are informational placeholders and no histogram is built);
\* the overlay chart and the data table are rendered from the empty frame,
\* as traces without points and a table without rows.
EmptyPageAsRendered ==
    view.state = "Empty" =>
        /\ AllInfo(view.metrics)
        /\ "hist_info" \in view.rendered
        /\ "histograms" \notin view.rendered
        /\ view.hists = <<>>
        /\ "overlay" \in view.rendered
        /\ Len(view.fig) >= 1
        /\ \A k \in 1..Len(view.fig) : view.fig[k].x = <<>> /\ view.fig[k].y = <<>>
        /\ "table" \in view.rendered
        /\ view.table = <<>>

\* An Empty page that shows the overlay with all three (empty) series.
EmptyPageWithOverlay ==
    /\ view.state = "Empty"
    /\ "overlay" \in view.rendered
    /\ Len(view.fig) = 3
    /\ "hist_info" \in view.rendered

\* C7: on every page with a non-empty filtered frame both histograms are
\* drawn, whatever the checkboxes say: the first from actual - GARCH, the
\* second from actual - hybrid, row by row, each with 30 bins.
C7_HistogramsIgnoreToggles ==
    view.state = "Ready" =>
        LET sub == view.df_filtered
        IN /\ "histograms" \in view.rendered
           /\ Len(view.hists) = 2
           /\ view.hists[1].x = [i \in 1..Len(sub) |-> sub[i].Actual - sub[i].GARCH]
           /\ view.hists[2].x = [i \in 1..Len(sub) |-> sub[i].Actual - sub[i].Predicted]
           /\ view.hists[1].nbins = 30
           /\ view.hists[2].nbins = 30

\* Both checkboxes off, both histograms there and different.
C7_Witness ==
    /\ view.state = "Ready"
    /\ ~widgets.show_garch
    /\ ~widgets.show_lstm
    /\ Len(view.hists) = 2
    /\ view.hists[1].x # view.hists[2].x

\* The source still holds what the cache holds.
SourceUnchanged == load_data(file) = [exc |-> "none", df |-> cache.df]

\* C8: a run with a filled cache returns the cached table without reading
\* the file while the source is unchanged, and reads the file again once the
\* source has changed.
C8_CacheFollowsSource ==
    [][(file' = file /\ cache.hit) =>
          IF SourceUnchanged
          THEN ~fileRead' /\ cache' = cache
          ELSE fileRead']_vars

RECURSIVE ParsableRows(_)
ParsableRows(rows) ==
    IF rows = <<>> THEN <<>>
    ELSE (IF IsParsable(Head(rows).Date) THEN <<Head(rows)>> ELSE <<>>)
         \o ParsableRows(Tail(rows))

HasUnparsableDate(f) ==
    /\ f.kind = "csv"
    /\ Required \subseteq f.cols
    /\ \E i \in 1..Len(f.rows) : ~IsParsable(f.rows[i].Date)
    /\ \E i \in 1..Len(f.rows) : IsParsable(f.rows[i].Date)

\* C9: a run that loads a file with unparsable Date cells succeeds: the
\* loaded table holds the rows with parsable dates, in order, and no others.
C9_UnparsableRowsDropped ==
    [][(file' = file /\ fileRead' /\ HasUnparsableDate(file)) =>
          /\ cache'.hit
          /\ view'.exception = "none"
          /\ Len(cache'.df.rows) = Len(ParsableRows(file.rows))
          /\ \A i \in 1..Len(cache'.df.rows) :
               /\ cache'.df.rows[i].Date = ParsableRows(file.rows)[i].Date
               /\ cache'.df.rows[i].Actual = ParsableRows(file.rows)[i].Actual]_vars

\* C10: a run that starts from a dashboard page leaves the cached table as
\* it was, and its page is the page of one pass over the whole cached table
\* with the run's date range and checkboxes, whatever was selected before.
C10_PassesAreIndependent ==
    [][(OnDashboard /\ file' = file) =>
          LET InNewRange(r) == InRange(r, widgets'.range)
          IN /\ cache' = cache
             /\ view'.df_filtered = SelectSeq(cache.df.rows, InNewRange)
             /\ view' = Dashboard(view'.df_filtered, widgets'.show_garch,
                                  widgets'.show_lstm)]_vars

\* After interactions: the range narrowed and a checkbox switched off.
C10_Witness ==
    /\ view.state = "Ready"
    /\ widgets.range # widgets.bounds
    /\ ~widgets.show_garch
    /\ Len(view.df_filtered) < Len(cache.df.rows)

====
